---- MODULE Spec2Model ----
(***************************************************************************)
(* Model of src/transform/transform_sales_data.py: the PySpark cleaning    *)
(* and star-schema pipeline (clean_customers, clean_products, clean_sales, *)
(* create_star_schema, main).                                              *)
(*                                                                         *)
(* A DataFrame is a bag (multiset) of rows: Spark gives a DataFrame no row *)
(* order, and the only place where the code depends on the physical order  *)
(* (row_number() among rows that tie on the ORDER BY key) is modelled as a *)
(* nondeterministic choice.  A nullable column holds << >> for null and    *)
(* <<v>> for the value v.  A string column whose characters matter (email) *)
(* is a sequence of one-character strings; the CSV reader turns the empty  *)
(* field into null, so the null email is the empty sequence.  Columns that *)
(* the code only passes through (name, country, segment, product_name,    *)
(* payment_method, status) are left out of the rows.                       *)
(*                                                                         *)
(* Timestamps are counted in ticks, TicksPerDay ticks to a day; money is   *)
(* counted in units of 0.0001, a raw unit_price being a multiple of 100    *)
(* units (two decimals), so that the percentage arithmetic is exact.       *)
(***************************************************************************)
EXTENDS Integers, Sequences, FiniteSets, Bags, TLC

VARIABLES customers_raw, products_raw, sales_raw,
          customers_clean, products_clean, sales_clean,
          fact_sales, dim_customer, dim_product,
          sink, pc, clock, processingDate, run, firstOut

vars == <<customers_raw, products_raw, sales_raw,
          customers_clean, products_clean, sales_clean,
          fact_sales, dim_customer, dim_product,
          sink, pc, clock, processingDate, run, firstOut>>

(***************************************************************************)
(* Bounds of the model.                                                    *)
(***************************************************************************)
MaxCustomers == 4

MaxProducts == 3

MaxSales == 2

MaxKeyRows == 2

MaxDay == 2

MaxRuns == 2

TicksPerDay == 2

(***************************************************************************)
(* Nullable values.                                                        *)
(***************************************************************************)
NULL == << >>

isNotNull(v) == v # NULL

isNull(v) == v = NULL

(***************************************************************************)
(* DataFrame operations on bags of rows.                                   *)
(***************************************************************************)
RECURSIVE SumCopies(_, _)
SumCopies(df, rows) ==
    IF rows = {} THEN 0
    ELSE LET r == CHOOSE x \in rows : TRUE
         IN  df[r] + SumCopies(df, rows \ {r})

count(df) == SumCopies(df, DOMAIN df)

\* df.filter(cond): the rows of df that are among rows, the rows of df
\* that satisfy cond
filter(df, rows) == [r \in rows \cap DOMAIN df |-> df[r]]

\* df.withColumn(...) / df.select(...): every row r of df becomes f[r]
withColumns(df, f) ==
    [y \in {f[x] : x \in DOMAIN df} |->
        SumCopies(df, {x \in DOMAIN df : f[x] = y})]

\* the rows of the one-column DataFrame ids that an inner join on the key
\* matches with a row whose key is id
joinCopiesLeft(ids, id) == IF BagIn([id |-> id], ids) THEN ids[[id |-> id]] ELSE 1

joinCopies(ids, id) == IF BagIn([id |-> id], ids) THEN ids[[id |-> id]] ELSE 0

\* df.join(ids, column, "inner"), key[r] being the column of row r: a row of
\* df comes out once for every row of ids that carries its key.
joinInner(df, key, ids) ==
    [r \in {x \in DOMAIN df : joinCopies(ids, key[x]) > 0} |->
        df[r] * joinCopies(ids, key[r])]

\* row_number() over (partition by key order by ord) = 1: one row of every
\* partition, one with the least ord; which one of several such rows is
\* up to the engine.
RowNumberFirst(df, key, ord) ==
    LET keys == {key[x] : x \in DOMAIN df}
        firsts == {g \in [keys -> DOMAIN df] :
                     \A k \in keys :
                        /\ key[g[k]] = k
                        /\ \A x \in DOMAIN df : key[x] = k => ord[g[k]] <= ord[x]}
    IN  {SetToBag({g[k] : k \in keys}) : g \in firsts}

\* F.to_date: the day of a timestamp, null for null.
to_date(ts) == IF isNull(ts) THEN NULL ELSE <<ts[1] \div TicksPerDay>>

\* fillna: the replacement for null, the value otherwise.
fillna(v, repl) == IF isNull(v) THEN <<repl>> ELSE v

(***************************************************************************)
(* clean_customers                                                         *)
(***************************************************************************)
Lower == {"a", "b", "c", "d", "e", "f", "g", "h", "i", "j", "k", "l", "m",
          "n", "o", "p", "q", "r", "s", "t", "u", "v", "w", "x", "y", "z"}

Upper == {"A", "B", "C", "D", "E", "F", "G", "H", "I", "J", "K", "L", "M",
          "N", "O", "P", "Q", "R", "S", "T", "U", "V", "W", "X", "Y", "Z"}

Digit == {"0", "1", "2", "3", "4", "5", "6", "7", "8", "9"}

LocalChars == Lower \cup Upper \cup Digit \cup {".", "_", "%", "+", "-"}

DomainChars == Lower \cup Upper \cup Digit \cup {".", "-"}

TldChars == Lower \cup Upper

\* rlike(email_pattern): ^[a-zA-Z0-9._%+-]+@[a-zA-Z0-9.-]+\.[a-zA-Z]{2,}$
email_pattern(e) ==
    \E at \in 1..Len(e) : \E dot \in 1..Len(e) :
        /\ e[at] = "@"
        /\ e[dot] = "."
        /\ at > 1
        /\ \A i \in 1..(at - 1) : e[i] \in LocalChars
        /\ dot > at + 1
        /\ \A i \in (at + 1)..(dot - 1) : e[i] \in DomainChars
        /\ Len(e) - dot >= 2
        /\ \A i \in (dot + 1)..Len(e) : e[i] \in TldChars

CustomerIdDescending(r) == 0 - r.customer_id

\* orderBy("customer_id")
CustomerId(r) == r.customer_id

CustomerRepair(r) ==
    [r EXCEPT !.phone = fillna(r.phone, "Unknown"),
              !.city = fillna(r.city, "Unknown"),
              !.registration_date = to_date(r.registration_date)]

\* The DataFrames clean_customers can return for spark_df.
clean_customers(spark_df) ==
    LET notNull == filter(spark_df, {r \in DOMAIN spark_df : isNotNull(r.email)})
        valid == filter(notNull, {r \in DOMAIN notNull : email_pattern(r.email)})
        firstRows == RowNumberFirst(valid,
                                    [r \in DOMAIN valid |-> r.email],
                                    [r \in DOMAIN valid |-> CustomerId(r)])
    IN  {withColumns(d, [r \in DOMAIN d |-> CustomerRepair(r)]) : d \in firstRows}

(***************************************************************************)
(* clean_products                                                          *)
(***************************************************************************)
\* F.percentile_approx(col, 0.5) over the non-null values of a group: with
\* fewer values than the accuracy (10000) the sketch is exact and the result
\* is the value of rank ceil(0.5 * n) in ascending order, an element of the
\* group; null when the group has no non-null value.
percentile_approx(values) ==
    LET n == count(values)
        rank == (n + 1) \div 2
        upTo(v) == SumCopies(values, {w \in DOMAIN values : w <= v})
        below(v) == SumCopies(values, {w \in DOMAIN values : w < v})
    IN  IF n = 0 THEN NULL
        ELSE <<CHOOSE v \in DOMAIN values : below(v) < rank /\ rank <= upTo(v)>>

\* groupBy("category").agg(percentile_approx("weight_kg", 0.5)): the
\* median_weight of a category of df.
weight_medians(df, category) ==
    LET group == filter(df, {r \in DOMAIN df :
                               r.category = category /\ isNotNull(r.weight_kg)})
    IN  percentile_approx(withColumns(group, [r \in DOMAIN group |-> r.weight_kg[1]]))

clampStock(stock_quantity) == IF stock_quantity < 0 THEN 0 ELSE stock_quantity

clampRatingUpperOnly(rating) == IF rating > 50 THEN 50 ELSE rating

\* rating is counted in tenths of a star: 5.0 is 50
clampRating(rating) ==
    IF rating > 50 THEN 50
    ELSE IF rating < 0 THEN 0
    ELSE rating

clean_products(spark_df) ==
    LET cleaned == filter(spark_df, {r \in DOMAIN spark_df : r.unit_price > 0})
        repaired == withColumns(cleaned, [r \in DOMAIN cleaned |->
                       [r EXCEPT !.stock_quantity = clampStock(r.stock_quantity),
                                 !.supplier = fillna(r.supplier, "Unknown")]])
        \* the left join on category finds the one median row of the
        \* category (the column is not nullable), so no row is added or lost
        joined == withColumns(repaired, [r \in DOMAIN repaired |->
                       [r EXCEPT !.weight_kg =
                           IF isNull(r.weight_kg)
                           THEN weight_medians(repaired, r.category)
                           ELSE r.weight_kg]])
    IN  withColumns(joined, [r \in DOMAIN joined |->
                       [r EXCEPT !.rating = clampRating(r.rating)]])

(***************************************************************************)
(* clean_sales                                                             *)
(***************************************************************************)
clampDiscount(discount_percent) ==
    IF discount_percent > 100 THEN 100
    ELSE IF discount_percent < 0 THEN 0
    ELSE discount_percent

\* The DataFrames clean_sales can return when F.current_date() evaluates to
\* current_date.
clean_sales(spark_df, valid_customers_df, valid_products_df, current_date) ==
    LET notNull == filter(spark_df, {r \in DOMAIN spark_df : isNotNull(r.date)})
        dated == withColumns(notNull, [r \in DOMAIN notNull |->
                     [r EXCEPT !.date = to_date(r.date)]])
        notFuture == filter(dated, {r \in DOMAIN dated : r.date[1] <= current_date})
        valid_customer_ids ==
            withColumns(valid_customers_df,
                        [r \in DOMAIN valid_customers_df |-> [id |-> r.customer_id]])
        withCustomer == joinInner(notFuture,
                                  [r \in DOMAIN notFuture |-> r.customer_id],
                                  valid_customer_ids)
        valid_product_ids ==
            withColumns(valid_products_df,
                        [r \in DOMAIN valid_products_df |-> [id |-> r.product_id]])
        withProduct == joinInner(withCustomer,
                                 [r \in DOMAIN withCustomer |-> r.product_id],
                                 valid_product_ids)
        positive == filter(withProduct, {r \in DOMAIN withProduct : r.quantity > 0})
        capped == withColumns(positive, [r \in DOMAIN positive |->
                     [r EXCEPT !.discount_percent = clampDiscount(r.discount_percent)]])
    IN  RowNumberFirst(capped,
                       [r \in DOMAIN capped |-> r.sale_id],
                       [r \in DOMAIN capped |-> r.date[1]])

(***************************************************************************)
(* create_star_schema                                                      *)
(***************************************************************************)
selectDimCustomer(customers_df) ==
    withColumns(customers_df, [r \in DOMAIN customers_df |->
        [customer_id |-> r.customer_id, email |-> r.email,
         registration_date |-> r.registration_date, city |-> r.city]])

selectDimProduct(products_df) ==
    withColumns(products_df, [r \in DOMAIN products_df |->
        [product_id |-> r.product_id, category |-> r.category,
         unit_price |-> r.unit_price, supplier |-> r.supplier,
         rating |-> r.rating]])

\* amount_before_discount = quantity * unit_price, null for a null unit_price
amountBeforeDiscount(quantity, unit_price) ==
    IF isNull(unit_price) THEN NULL ELSE <<quantity * unit_price[1]>>

discountAmountIntegerDivision(amount_before_discount, discount_percent) ==
    IF isNull(amount_before_discount) THEN NULL
    ELSE <<amount_before_discount[1] * (discount_percent \div 100)>>

\* discount_amount = amount_before_discount * (discount_percent / 100); the
\* division is the fractional one, and exact on amounts of two decimals
discountAmount(amount_before_discount, discount_percent) ==
    IF isNull(amount_before_discount) THEN NULL
    ELSE <<(amount_before_discount[1] * discount_percent) \div 100>>

\* total_amount = amount_before_discount - discount_amount
totalAmount(amount_before_discount, discount_amount) ==
    IF isNull(amount_before_discount) \/ isNull(discount_amount) THEN NULL
    ELSE <<amount_before_discount[1] - discount_amount[1]>>

\* a row of sales_df with the unit_price the join found for it (null when it
\* found none), the calculated amounts, and date renamed to sale_date
factRow(s, unit_price) ==
    LET amount_before_discount == amountBeforeDiscount(s.quantity, unit_price)
        discount_amount == discountAmount(amount_before_discount, s.discount_percent)
    IN  [sale_id |-> s.sale_id, customer_id |-> s.customer_id,
         product_id |-> s.product_id, sale_date |-> s.date,
         quantity |-> s.quantity, unit_price |-> unit_price,
         discount_percent |-> s.discount_percent,
         amount_before_discount |-> amount_before_discount,
         discount_amount |-> discount_amount,
         total_amount |-> totalAmount(amount_before_discount, discount_amount)]

\* the row of sales_df that a fact row was made from
factSource(f) ==
    [sale_id |-> f.sale_id, customer_id |-> f.customer_id,
     product_id |-> f.product_id, date |-> f.sale_date,
     quantity |-> f.quantity, discount_percent |-> f.discount_percent]

\* sales_df.join(products_df.select("product_id", "unit_price"), "product_id",
\* "left") and the columns calculated from it: a sale comes out once for
\* every product row that carries its product_id, and once with a null
\* unit_price when there is none.
selectFactSales(products_df, sales_df) ==
    LET prices == withColumns(products_df, [r \in DOMAIN products_df |->
                     [product_id |-> r.product_id, unit_price |-> r.unit_price]])
        matched == {factRow(s, <<p.unit_price>>) :
                       <<s, p>> \in {sp \in (DOMAIN sales_df) \X (DOMAIN prices) :
                                       sp[1].product_id = sp[2].product_id}}
        unmatched == {factRow(s, NULL) :
                       s \in {x \in DOMAIN sales_df :
                                \A p \in DOMAIN prices : p.product_id # x.product_id}}
    IN  [f \in matched \cup unmatched |->
            IF isNull(f.unit_price) THEN sales_df[factSource(f)]
            ELSE sales_df[factSource(f)] *
                 prices[[product_id |-> f.product_id, unit_price |-> f.unit_price[1]]]]

create_star_schema(customers_df, products_df, sales_df) ==
    [fact_sales |-> selectFactSales(products_df, sales_df),
     dim_customer |-> selectDimCustomer(customers_df),
     dim_product |-> selectDimProduct(products_df)]

(***************************************************************************)
(* main                                                                    *)
(***************************************************************************)
NoTable == NULL

EmptySink == [dim_customer |-> NoTable, dim_product |-> NoTable, fact_sales |-> NoTable]

\* spark.read.csv of the three inputs: a missing file or a schema the
\* columns do not fit raises and the run ends before anything is written.
Load ==
    /\ pc = "load"
    /\ pc' = "clean_customers"
    /\ UNCHANGED <<customers_raw, products_raw, sales_raw, customers_clean,
                   products_clean, sales_clean, fact_sales, dim_customer,
                   dim_product, sink, clock, processingDate, run, firstOut>>

LoadFails ==
    /\ pc = "load"
    /\ pc' = "aborted"
    /\ UNCHANGED <<customers_raw, products_raw, sales_raw, customers_clean,
                   products_clean, sales_clean, fact_sales, dim_customer,
                   dim_product, sink, clock, processingDate, run, firstOut>>

CleanCustomers ==
    /\ pc = "clean_customers"
    /\ customers_clean' \in clean_customers(customers_raw)
    /\ pc' = "clean_products"
    /\ UNCHANGED <<customers_raw, products_raw, sales_raw, products_clean,
                   sales_clean, fact_sales, dim_customer, dim_product, sink,
                   clock, processingDate, run, firstOut>>

CleanProducts ==
    /\ pc = "clean_products"
    /\ products_clean' = clean_products(products_raw)
    /\ pc' = "clean_sales"
    /\ UNCHANGED <<customers_raw, products_raw, sales_raw, customers_clean,
                   sales_clean, fact_sales, dim_customer, dim_product, sink,
                   clock, processingDate, run, firstOut>>

\* F.current_date() is the wall-clock date of the moment the plan is
\* executed: any date from the last one seen on.  (Spark executes the plan
\* at the actions that follow; the date that reaches the written table is
\* likewise some wall-clock date of the run.)
CleanSales ==
    /\ pc = "clean_sales"
    /\ \E current_date \in clock..MaxDay :
          /\ clock' = current_date
          /\ sales_clean' \in clean_sales(sales_raw, customers_clean,
                                          products_clean, current_date)
    /\ pc' = "create_star_schema"
    /\ UNCHANGED <<customers_raw, products_raw, sales_raw, customers_clean,
                   products_clean, fact_sales, dim_customer, dim_product, sink,
                   processingDate, run, firstOut>>

CreateStarSchema ==
    /\ pc = "create_star_schema"
    /\ LET star == create_star_schema(customers_clean, products_clean, sales_clean)
       IN  /\ fact_sales' = star.fact_sales
           /\ dim_customer' = star.dim_customer
           /\ dim_product' = star.dim_product
    /\ pc' = "write_dim_customer"
    /\ UNCHANGED <<customers_raw, products_raw, sales_raw, customers_clean,
                   products_clean, sales_clean, sink, clock, processingDate,
                   run, firstOut>>

\* df.write.mode("overwrite").csv(path): the table of this run replaces what
\* the path held.
write(table, df, next) ==
    /\ sink' = [sink EXCEPT ![table] = <<[run |-> run, rows |-> df]>>]
    /\ pc' = next
    /\ UNCHANGED <<customers_raw, products_raw, sales_raw, customers_clean,
                   products_clean, sales_clean, fact_sales, dim_customer,
                   dim_product, clock, processingDate, run, firstOut>>

\* a write that raises: the exception ends main; overwrite mode may or may
\* not have removed the old contents of the path by then.
writeFails(table) ==
    /\ sink' \in {sink, [sink EXCEPT ![table] = NoTable]}
    /\ pc' = "aborted"
    /\ UNCHANGED <<customers_raw, products_raw, sales_raw, customers_clean,
                   products_clean, sales_clean, fact_sales, dim_customer,
                   dim_product, clock, processingDate, run, firstOut>>

WriteDimCustomer ==
    /\ pc = "write_dim_customer"
    /\ write("dim_customer", dim_customer, "write_dim_product")

WriteDimCustomerFails ==
    /\ pc = "write_dim_customer"
    /\ writeFails("dim_customer")

WriteDimProduct ==
    /\ pc = "write_dim_product"
    /\ write("dim_product", dim_product, "write_fact_sales")

WriteDimProductFails ==
    /\ pc = "write_dim_product"
    /\ writeFails("dim_product")

WriteFactSales ==
    /\ pc = "write_fact_sales"
    /\ write("fact_sales", fact_sales, "done")

WriteFactSalesFails ==
    /\ pc = "write_fact_sales"
    /\ writeFails("fact_sales")

\* The tables of the sink, without the run that wrote them.
sinkRows(s) ==
    [t \in DOMAIN s |-> IF s[t] = NoTable THEN NoTable ELSE <<s[t][1].rows>>]

\* The pipeline is run again on the same raw inputs (the only recovery
\* path, and the way the outputs are refreshed).  firstOut remembers what
\* the last completed run left in the sink.
Rerun ==
    /\ pc \in {"done", "aborted"}
    /\ run < MaxRuns
    /\ run' = run + 1
    /\ firstOut' = IF pc = "done" THEN <<sinkRows(sink)>> ELSE firstOut
    /\ pc' = "load"
    /\ customers_clean' = EmptyBag
    /\ products_clean' = EmptyBag
    /\ sales_clean' = EmptyBag
    /\ fact_sales' = EmptyBag
    /\ dim_customer' = EmptyBag
    /\ dim_product' = EmptyBag
    /\ UNCHANGED <<customers_raw, products_raw, sales_raw, sink, clock,
                   processingDate>>

(***************************************************************************)
(* Raw inputs.                                                             *)
(***************************************************************************)
\* The bags of at most n rows drawn from kinds.
RECURSIVE BagsUpTo(_, _)
BagsUpTo(kinds, n) ==
    IF n = 0 THEN {EmptyBag}
    ELSE LET smaller == BagsUpTo(kinds, n - 1)
         IN  smaller \cup {b (+) SetToBag({k}) : b \in smaller, k \in kinds}

EmailA == <<"a", "@", "x", ".", "c", "o">>

EmailB == <<"b", "@", "x", ".", "c", "o">>

EmailNoTld == <<"u", "@", "i", "n", "v">>

EmailShortTld == <<"a", "@", "x", ".", "c">>

\* the last tick of day d
Tick(d) == <<d * TicksPerDay + TicksPerDay - 1>>

LaunchDay == MaxDay - 1

Customer(id, email, contact) ==
    [customer_id |-> id, email |-> email, phone |-> contact.phone,
     city |-> contact.city, registration_date |-> Tick(0)]

Contacts == {[phone |-> NULL, city |-> NULL],
             [phone |-> <<"555">>, city |-> <<"Lima">>]}

Known == [phone |-> <<"555">>, city |-> <<"Lima">>]

CustomerKinds ==
    {Customer(id, email, contact) :
        id \in {1, 2},
        email \in {NULL, EmailA, EmailB, EmailNoTld, EmailShortTld},
        contact \in Contacts}

CustomerKeyKinds ==
    {Customer(1, EmailA, Known), Customer(1, EmailB, Known),
     Customer(2, EmailA, Known), Customer(2, EmailNoTld, Known),
     Customer(2, NULL, Known)}

Product(id, category, unit_price, weight_kg, rating, supplier, stock_quantity) ==
    [product_id |-> id, category |-> category, unit_price |-> unit_price,
     supplier |-> supplier, stock_quantity |-> stock_quantity,
     weight_kg |-> weight_kg, rating |-> rating]

ProductKinds ==
    {Product(1, category, unit_price, weight_kg, 35, <<"Acme">>, 7) :
        category \in {"A", "B"},
        unit_price \in {-100, 0, 300},
        weight_kg \in {NULL, <<10>>, <<20>>}}
    \cup
    {Product(1, "A", unit_price, NULL, rating, extra.supplier, extra.stock_quantity) :
        unit_price \in {0, 300},
        rating \in {-10, 35, 60},
        extra \in {[supplier |-> NULL, stock_quantity |-> -5],
                   [supplier |-> <<"Acme">>, stock_quantity |-> 7]}}

ProductKeyKinds ==
    {Product(id, "A", unit_price, <<10>>, 35, <<"Acme">>, 7) :
        id \in {1, 2}, unit_price \in {0, 300}}

Sale(sale_id, customer_id, product_id, date, quantity, discount_percent) ==
    [sale_id |-> sale_id, customer_id |-> customer_id, product_id |-> product_id,
     date |-> date, quantity |-> quantity, discount_percent |-> discount_percent]

SaleKeyKinds ==
    {Sale(1, customer_id, product_id, Tick(LaunchDay), 2, 25) :
        customer_id \in {1, 2}, product_id \in {1, 2}}

SaleKinds ==
    {Sale(sale_id, customer_id, product_id, Tick(LaunchDay), 2, 25) :
        sale_id \in {1, 2}, customer_id \in {1, 2}, product_id \in {1, 2}}
    \cup
    {Sale(1, 1, 1, date, quantity, discount_percent) :
        date \in {NULL} \cup {Tick(d) : d \in (LaunchDay - 1)..MaxDay},
        quantity \in {-1, 0, 2},
        discount_percent \in {-10, 25, 130}}

DefaultCustomers == SetToBag({Customer(1, EmailA, Known)})

DefaultProducts == SetToBag({Product(1, "A", 300, <<10>>, 35, <<"Acme">>, 7)})

DefaultSales ==
    SetToBag({Sale(1, 1, 1, Tick(LaunchDay), 2, 25),
              Sale(2, 2, 2, Tick(LaunchDay), 1, 0)})

\* The state main starts a run in, whatever the raw inputs.  clock is the
\* wall-clock date, as F.current_date() last returned it.  processingDate is
\* the date the run is made for, the wall-clock date of its launch: main
\* takes no such parameter and no step reads it.
Start(start_pc) ==
    /\ customers_clean = EmptyBag
    /\ products_clean = EmptyBag
    /\ sales_clean = EmptyBag
    /\ fact_sales = EmptyBag
    /\ dim_customer = EmptyBag
    /\ dim_product = EmptyBag
    /\ sink = EmptySink
    /\ pc = start_pc
    /\ clock = LaunchDay
    /\ processingDate = LaunchDay
    /\ run = 1
    /\ firstOut = NULL

InitCustomers ==
    /\ customers_raw \in BagsUpTo(CustomerKinds, MaxCustomers)
    /\ products_raw = DefaultProducts
    /\ sales_raw = DefaultSales

InitProducts ==
    /\ customers_raw = DefaultCustomers
    /\ products_raw \in BagsUpTo(ProductKinds, MaxProducts)
    /\ sales_raw = DefaultSales

InitKeys ==
    /\ customers_raw \in BagsUpTo(CustomerKeyKinds, MaxKeyRows)
    /\ products_raw \in BagsUpTo(ProductKeyKinds, MaxKeyRows)
    /\ sales_raw \in BagsUpTo(SaleKeyKinds, MaxKeyRows)

InitSales ==
    /\ customers_raw = DefaultCustomers
    /\ products_raw = DefaultProducts
    /\ sales_raw \in BagsUpTo(SaleKinds, MaxSales)

(***************************************************************************)
(* Specifications.                                                         *)
(***************************************************************************)
\* The transformation (clean_customers, clean_products, clean_sales,
\* create_star_schema in the order of main) on loaded raw inputs.
InitTransform ==
    /\ InitCustomers \/ InitProducts \/ InitKeys \/ InitSales
    /\ Start("clean_customers")

NextTransform ==
    \/ CleanCustomers
    \/ CleanProducts
    \/ CleanSales
    \/ CreateStarSchema

SpecTransform == InitTransform /\ [][NextTransform]_vars

\* main, from the reading of the inputs to the writes, and run again.
Init ==
    /\ customers_raw = DefaultCustomers
    /\ products_raw = DefaultProducts
    /\ sales_raw \in BagsUpTo(SaleKinds, MaxSales)
    /\ Start("load")

Next ==
    \/ Load
    \/ LoadFails
    \/ CleanCustomers
    \/ CleanProducts
    \/ CleanSales
    \/ CreateStarSchema
    \/ WriteDimCustomer
    \/ WriteDimCustomerFails
    \/ WriteDimProduct
    \/ WriteDimProductFails
    \/ WriteFactSales
    \/ WriteFactSalesFails
    \/ Rerun

Spec == Init /\ [][Next]_vars

(***************************************************************************)
(* Stages of a run.                                                        *)
(***************************************************************************)
BuiltPcs == {"write_dim_customer", "write_dim_product", "write_fact_sales", "done"}

\* create_star_schema has returned the three tables of this run
Built == pc \in BuiltPcs

\* clean_customers has returned customers_clean
CustomersCleaned == pc \in {"clean_products", "clean_sales", "create_star_schema"} \cup BuiltPcs

\* clean_products has returned products_clean
ProductsCleaned == pc \in {"clean_sales", "create_star_schema"} \cup BuiltPcs

Min(S) == CHOOSE m \in S : \A x \in S : m <= x

(***************************************************************************)
(* C1: every FactSale row has a customer_id that occurs in DimCustomer and *)
(* a product_id that occurs in DimProduct.                                 *)
(***************************************************************************)
FactKeysResolve ==
    Built =>
        \A f \in DOMAIN fact_sales :
            /\ \E c \in DOMAIN dim_customer : c.customer_id = f.customer_id
            /\ \E p \in DOMAIN dim_product : p.product_id = f.product_id

\* a run that kept a sale and dropped another one whose customer was in the
\* raw customers but not in DimCustomer, and one whose product was in the
\* raw products but not in DimProduct
FactKeysResolveWitness ==
    /\ Built
    /\ fact_sales # EmptyBag
    /\ \E s \in DOMAIN sales_raw :
          /\ \E c \in DOMAIN customers_raw : c.customer_id = s.customer_id
          /\ \A c \in DOMAIN dim_customer : c.customer_id # s.customer_id
    /\ \E s \in DOMAIN sales_raw :
          /\ \E p \in DOMAIN products_raw : p.product_id = s.product_id
          /\ \A p \in DOMAIN dim_product : p.product_id # s.product_id

(***************************************************************************)
(* C2: no two rows of FactSale share a sale_id.                            *)
(***************************************************************************)
FactSaleIdUnique ==
    Built =>
        /\ \A f \in DOMAIN fact_sales : fact_sales[f] = 1
        /\ \A f, g \in DOMAIN fact_sales : f.sale_id = g.sale_id => f = g

(***************************************************************************)
(* C3: for every non-null raw email that matches the pattern, the cleaned  *)
(* customers hold exactly one row with that email; it is a raw row with    *)
(* the smallest customer_id among the raw rows of that email; and no       *)
(* cleaned row has a null or non-matching email.                           *)
(***************************************************************************)
EmailDedupKeepsSmallestId ==
    CustomersCleaned =>
        /\ \A r \in DOMAIN customers_raw :
              (r.email # NULL /\ email_pattern(r.email)) =>
                  LET kept == {c \in DOMAIN customers_clean : c.email = r.email}
                      ids == {x.customer_id : x \in {y \in DOMAIN customers_raw :
                                                        y.email = r.email}}
                  IN  /\ Cardinality(kept) = 1
                      /\ \A c \in kept :
                            /\ customers_clean[c] = 1
                            /\ c.customer_id = Min(ids)
                            /\ \E x \in DOMAIN customers_raw :
                                  /\ x.customer_id = c.customer_id
                                  /\ x.email = c.email
                                  /\ x.phone # NULL => c.phone = x.phone
                                  /\ x.city # NULL => c.city = x.city
        /\ \A c \in DOMAIN customers_clean :
              c.email # NULL /\ email_pattern(c.email)

\* two raw rows share a matching email under different ids, another raw row
\* has a null email, another one an email the pattern rejects
EmailDedupWitness ==
    /\ CustomersCleaned
    /\ \E r, q \in DOMAIN customers_raw :
          /\ r.email = q.email
          /\ email_pattern(r.email)
          /\ r.customer_id < q.customer_id
          /\ \E c \in DOMAIN customers_clean :
                c.email = r.email /\ c.customer_id = r.customer_id
    /\ \E r \in DOMAIN customers_raw : r.email = NULL
    /\ \E r \in DOMAIN customers_raw : r.email # NULL /\ ~email_pattern(r.email)

(***************************************************************************)
(* C4: no two rows of DimCustomer share a customer_id.                     *)
(***************************************************************************)
DimCustomerIdUnique ==
    Built =>
        /\ \A c \in DOMAIN dim_customer : dim_customer[c] = 1
        /\ \A c, d \in DOMAIN dim_customer : c.customer_id = d.customer_id => c = d

(***************************************************************************)
(* C5: every FactSale row has quantity > 0, discount_percent in [0,100]    *)
(* and a sale_date not later than the processing date of the run.          *)
(***************************************************************************)
FactRowsInRange ==
    Built =>
        \A f \in DOMAIN fact_sales :
            /\ f.quantity > 0
            /\ 0 <= f.discount_percent /\ f.discount_percent <= 100
            /\ f.sale_date # NULL
            /\ f.sale_date[1] <= processingDate

(***************************************************************************)
(* C6: the cleaned products hold exactly one row for each raw product row  *)
(* with unit_price > 0 and none for the others, each with the raw rating   *)
(* clamped into [0,5]; so every DimProduct row has unit_price > 0 and a    *)
(* rating within [0,5].                                                    *)
(***************************************************************************)
Clamped(x, lo, hi) == IF x < lo THEN lo ELSE IF x > hi THEN hi ELSE x

\* o is what is left of the raw product row r
ProductOf(o, r) ==
    /\ o.product_id = r.product_id
    /\ o.category = r.category
    /\ o.unit_price = r.unit_price
    /\ o.rating = Clamped(r.rating, 0, 50)

\* the raw rows q and r leave rows that agree on these columns
SameProduct(q, r) ==
    /\ q.product_id = r.product_id
    /\ q.category = r.category
    /\ q.unit_price = r.unit_price
    /\ Clamped(q.rating, 0, 50) = Clamped(r.rating, 0, 50)

PricedRows == {r \in DOMAIN products_raw : r.unit_price > 0}

ProductsDropOrClamp ==
    /\ ProductsCleaned =>
          /\ count(products_clean) = SumCopies(products_raw, PricedRows)
          /\ \A r \in PricedRows :
                SumCopies(products_clean,
                          {o \in DOMAIN products_clean : ProductOf(o, r)})
                = SumCopies(products_raw, {q \in PricedRows : SameProduct(q, r)})
          /\ \A o \in DOMAIN products_clean :
                /\ o.unit_price > 0
                /\ 0 <= o.rating /\ o.rating <= 50
                /\ \E r \in PricedRows : ProductOf(o, r)
    /\ Built =>
          \A p \in DOMAIN dim_product :
              p.unit_price > 0 /\ 0 <= p.rating /\ p.rating <= 50

\* raw products with a row that is dropped, a row whose rating is capped and
\* a row whose rating is raised to 0
ProductsDropOrClampWitness ==
    /\ Built
    /\ products_clean # EmptyBag
    /\ \E r \in DOMAIN products_raw : r.unit_price <= 0
    /\ \E r \in PricedRows : r.rating > 50
    /\ \E r \in PricedRows : r.rating < 0

(***************************************************************************)
(* C7: on every FactSale row unit_price is present,                        *)
(* amount_before_discount = quantity * unit_price,                         *)
(* discount_amount = amount_before_discount * discount_percent / 100,      *)
(* total_amount = amount_before_discount - discount_amount, and            *)
(* 0 <= discount_amount <= amount_before_discount with total_amount >= 0.  *)
(***************************************************************************)
FactAmounts ==
    Built =>
        \A f \in DOMAIN fact_sales :
            /\ f.unit_price # NULL
            /\ f.amount_before_discount # NULL
            /\ f.discount_amount # NULL
            /\ f.total_amount # NULL
            /\ f.amount_before_discount[1] = f.quantity * f.unit_price[1]
            /\ 100 * f.discount_amount[1] =
                   f.amount_before_discount[1] * f.discount_percent
            /\ f.total_amount[1] = f.amount_before_discount[1] - f.discount_amount[1]
            /\ 0 <= f.discount_amount[1]
            /\ f.discount_amount[1] <= f.amount_before_discount[1]
            /\ f.total_amount[1] >= 0

\* a fact row with a discount strictly between 0 and 100 percent, and one
\* whose raw discount was capped
FactAmountsWitness ==
    /\ Built
    /\ \E f \in DOMAIN fact_sales :
          /\ f.discount_percent = 25
          /\ f.discount_amount # NULL
          /\ f.discount_amount[1] > 0
          /\ f.total_amount[1] > 0
    /\ \E f \in DOMAIN fact_sales : f.discount_percent = 100
    /\ \E s \in DOMAIN sales_raw : s.discount_percent > 100

(***************************************************************************)
(* C8: two runs on the same raw inputs with the same processing date leave *)
(* the same three tables.                                                  *)
(***************************************************************************)
RunsAgree ==
    (run > 1 /\ pc = "done" /\ firstOut # NULL) => sinkRows(sink) = firstOut[1]

(***************************************************************************)
(* C9: a run that aborts has made none of its tables visible at the sink.  *)
(***************************************************************************)
AbortLeavesNoOutput ==
    pc = "aborted" =>
        \A t \in DOMAIN sink : sink[t] = NoTable \/ sink[t][1].run # run

(***************************************************************************)
(* C10: a row with null weight_kg receives the median of the non-null      *)
(* weights of the rows of its category that have unit_price > 0, the       *)
(* median of an even number of values being the mean of the two middle     *)
(* ones; non-null weights are unchanged; without a non-null weight in the  *)
(* category the value stays null.                                          *)
(***************************************************************************)
\* the value of the given rank (1 = least) in a bag of numbers
Ranked(values, rank) ==
    CHOOSE v \in DOMAIN values :
        /\ SumCopies(values, {w \in DOMAIN values : w < v}) < rank
        /\ rank <= SumCopies(values, {w \in DOMAIN values : w <= v})

\* twice the median of a non-empty bag of numbers
TwiceMedian(values) ==
    LET n == count(values)
    IN  Ranked(values, (n + 1) \div 2) + Ranked(values, (n \div 2) + 1)

CategoryWeights(category) ==
    LET rows == {r \in PricedRows : r.category = category /\ r.weight_kg # NULL}
    IN  [w \in {r.weight_kg[1] : r \in rows} |->
            SumCopies(products_raw, {r \in rows : r.weight_kg[1] = w})]

WeightImputedWithMedian ==
    ProductsCleaned =>
        \A category \in {r.category : r \in PricedRows} :
            LET weights == CategoryWeights(category)
                given == {r \in PricedRows : r.category = category /\ r.weight_kg # NULL}
                missing == {r \in PricedRows : r.category = category /\ r.weight_kg = NULL}
                out == {o \in DOMAIN products_clean : o.category = category}
                imputed == {o \in out : o.weight_kg \notin {r.weight_kg : r \in given}}
            IN  /\ \A r \in given : \E o \in out : o.weight_kg = r.weight_kg
                /\ (missing # {} /\ weights = EmptyBag) =>
                       \E o \in out : o.weight_kg = NULL
                /\ \A o \in imputed :
                       IF weights = EmptyBag THEN o.weight_kg = NULL
                       ELSE /\ o.weight_kg # NULL
                            /\ 2 * o.weight_kg[1] = TwiceMedian(weights)
                /\ (missing # {} /\ weights # EmptyBag) =>
                       \E o \in out :
                           o.weight_kg # NULL /\ 2 * o.weight_kg[1] = TwiceMedian(weights)

(***************************************************************************)
(* C11: among the sales that pass the date, orphan and quantity rules,     *)
(* clean_sales keeps exactly one row for each sale_id, one with the least  *)
(* date; and which of several rows with that least date is kept is fixed   *)
(* by the rows themselves: two runs on the same raw inputs that read the   *)
(* same current date keep the same rows.                                   *)
(***************************************************************************)
\* clean_sales has returned sales_clean
SalesCleaned == pc \in {"create_star_schema"} \cup BuiltPcs

\* the raw sales that pass the date, orphan and quantity rules, the date
\* read by the run being clock
SurvivingSales ==
    {s \in DOMAIN sales_raw :
        /\ s.date # NULL
        /\ s.date[1] \div TicksPerDay <= clock
        /\ \E c \in DOMAIN customers_clean : c.customer_id = s.customer_id
        /\ \E p \in DOMAIN products_clean : p.product_id = s.product_id
        /\ s.quantity > 0}

SaleDedupKeepsEarliest ==
    SalesCleaned =>
        /\ {k.sale_id : k \in DOMAIN sales_clean} = {s.sale_id : s \in SurvivingSales}
        /\ \A k \in DOMAIN sales_clean :
              /\ sales_clean[k] = 1
              /\ \A j \in DOMAIN sales_clean : j.sale_id = k.sale_id => j = k
              /\ \E s \in SurvivingSales :
                    /\ s.sale_id = k.sale_id
                    /\ s.customer_id = k.customer_id
                    /\ s.product_id = k.product_id
                    /\ s.quantity = k.quantity
                    /\ k.date = <<s.date[1] \div TicksPerDay>>
              /\ \A s \in SurvivingSales :
                    s.sale_id = k.sale_id => k.date[1] <= s.date[1] \div TicksPerDay

SaleDedupTieBreakFixed ==
    (run > 1 /\ pc = "done" /\ firstOut # NULL /\ clock = LaunchDay) =>
        sinkRows(sink).fact_sales = firstOut[1].fact_sales

SaleDedupDeterministic == SaleDedupKeepsEarliest /\ SaleDedupTieBreakFixed

====
